---- MODULE Spec2Model ----
(***************************************************************************)
(* Model of update_talis_installed.py: a batch script that resolves the    *)
(* site-name and installation-date columns of a workbook, folds the rows   *)
(* of three sheets into a site -> date map, merges that map into the       *)
(* records of a JSON file and rewrites the file.                           *)
(*                                                                         *)
(* Text is modelled character by character: a Python str is a sequence of  *)
(* one-character strings, so lower(), strip(), replace(), the substring    *)
(* tests, strptime and the regular expression work on the characters.      *)
(***************************************************************************)
EXTENDS Integers, Sequences, FiniteSets, TLC

\* ------------------------------------------------------------------------
\* Bounds of the model
\* ------------------------------------------------------------------------
MaxRows == 2
MaxSecRows == 2
MaxRecords == 2
MaxRuns == 2

\* ------------------------------------------------------------------------
\* Python str operations
\* ------------------------------------------------------------------------
UpperCase == <<"A","B","C","D","E","F","G","H","I","J","K","L","M",
               "N","O","P","Q","R","S","T","U","V","W","X","Y","Z">>

LowerCase == <<"a","b","c","d","e","f","g","h","i","j","k","l","m",
               "n","o","p","q","r","s","t","u","v","w","x","y","z">>

DigitChars == <<"0","1","2","3","4","5","6","7","8","9">>

IsUpper(c) == \E i \in 1..26 : UpperCase[i] = c

IsLetter(c) == \E i \in 1..26 : UpperCase[i] = c \/ LowerCase[i] = c

IsDigit(c) == \E i \in 1..10 : DigitChars[i] = c

IsSpace(c) == c \in {" ", "\n", "\r", "\t"}

DigitVal(c) == (CHOOSE i \in 1..10 : DigitChars[i] = c) - 1

LowerChar(c) ==
    IF IsUpper(c) THEN LowerCase[CHOOSE i \in 1..26 : UpperCase[i] = c] ELSE c

\* str.lower()
lower(s) == [i \in 1..Len(s) |-> LowerChar(s[i])]

RECURSIVE lstrip(_)
lstrip(s) == IF s # <<>> /\ IsSpace(Head(s)) THEN lstrip(Tail(s)) ELSE s

RECURSIVE rstrip(_)
rstrip(s) ==
    IF s # <<>> /\ IsSpace(s[Len(s)]) THEN rstrip(SubSeq(s, 1, Len(s) - 1)) ELSE s

\* str.strip()
strip(s) == rstrip(lstrip(s))

\* str.replace(a, b) for one-character a and b
replace(s, a, b) == [i \in 1..Len(s) |-> IF s[i] = a THEN b ELSE s[i]]

\* the Python test `sub in s`
contains(s, sub) ==
    \E i \in 0..(Len(s) - Len(sub)) : SubSeq(s, i + 1, i + Len(sub)) = sub

\* s[:n]
prefix(s, n) == SubSeq(s, 1, IF Len(s) < n THEN Len(s) ELSE n)

\* zero-padded decimal rendering of n on w digits (strftime's %Y, %m, %d)
RECURSIVE pad(_, _)
pad(n, w) == IF w = 0 THEN <<>> ELSE pad(n \div 10, w - 1) \o <<DigitChars[(n % 10) + 1]>>

\* decimal rendering of n without padding
RECURSIVE decimal(_)
decimal(n) == IF n < 10 THEN <<DigitChars[n + 1]>> ELSE decimal(n \div 10) \o <<DigitChars[(n % 10) + 1]>>

\* int(s) for a string of digits
RECURSIVE int(_)
int(s) == IF s = <<>> THEN 0 ELSE 10 * int(SubSeq(s, 1, Len(s) - 1)) + DigitVal(s[Len(s)])

\* ------------------------------------------------------------------------
\* Cells of the workbook, as pandas hands them to the script
\* ------------------------------------------------------------------------
\* k = "nan": an empty cell; k = "ts": a native date (pandas Timestamp, a
\* subclass of datetime) of year y, month m, day d; k = "text": the string s.
NaN == [k |-> "nan", y |-> 0, m |-> 0, d |-> 0, s |-> <<>>]

Timestamp(y, m, d) == [k |-> "ts", y |-> y, m |-> m, d |-> d, s |-> <<>>]

Text(s) == [k |-> "text", y |-> 0, m |-> 0, d |-> 0, s |-> s]

\* pd.notna(cell)
notna(cell) == cell.k # "nan"

\* dt.strftime('%Y-%m-%d')
strftime(y, m, d) == pad(y, 4) \o <<"-">> \o pad(m, 2) \o <<"-">> \o pad(d, 2)

\* str(cell): a Timestamp prints as "YYYY-MM-DD 00:00:00"
str(cell) ==
    CASE cell.k = "ts" ->
           strftime(cell.y, cell.m, cell.d) \o <<" ","0","0",":","0","0",":","0","0">>
      [] cell.k = "text" -> cell.s
      [] OTHER -> <<"n","a","n">>

\* ------------------------------------------------------------------------
\* datetime: calendar validity
\* ------------------------------------------------------------------------
IsLeap(y) == (y % 4 = 0 /\ y % 100 # 0) \/ y % 400 = 0

DaysInMonth(y, m) ==
    CASE m \in {4, 6, 9, 11} -> 30
      [] m = 2 -> IF IsLeap(y) THEN 29 ELSE 28
      [] OTHER -> 31

\* datetime(y, m, d) raises ValueError unless this holds
ValidDate(y, m, d) ==
    /\ y \in 1..9999
    /\ m \in 1..12
    /\ d \in 1..DaysInMonth(y, m)

\* ------------------------------------------------------------------------
\* datetime.strptime
\* ------------------------------------------------------------------------
\* A format is a sequence of items: a directive ("%Y", "%m", "%d", "%H",
\* "%M", "%S", "%B", "%b") or one literal character.  strptime compiles the
\* format into a regular expression (a blank of the format becomes \s+),
\* matches it case-insensitively at the start of the string with
\* backtracking over the alternatives of each directive, rejects the string
\* when text remains after the match, and then builds the date.
MonthNames ==
    << <<"j","a","n","u","a","r","y">>,
       <<"f","e","b","r","u","a","r","y">>,
       <<"m","a","r","c","h">>,
       <<"a","p","r","i","l">>,
       <<"m","a","y">>,
       <<"j","u","n","e">>,
       <<"j","u","l","y">>,
       <<"a","u","g","u","s","t">>,
       <<"s","e","p","t","e","m","b","e","r">>,
       <<"o","c","t","o","b","e","r">>,
       <<"n","o","v","e","m","b","e","r">>,
       <<"d","e","c","e","m","b","e","r">> >>

\* the locale's abbreviated month names (%b): Jan, Feb, ..., Dec
MonthAbbrs == [i \in 1..12 |-> SubSeq(MonthNames[i], 1, 3)]

HasDigits(s, p, n) == p + n - 1 <= Len(s) /\ \A i \in p..(p + n - 1) : IsDigit(s[i])

NumAt(s, p, n) == int(SubSeq(s, p, p + n - 1))

RECURSIVE SpaceRunLen(_, _)
SpaceRunLen(s, p) == IF p <= Len(s) /\ IsSpace(s[p]) THEN 1 + SpaceRunLen(s, p + 1) ELSE 0

RECURSIVE LetterRunLen(_, _)
LetterRunLen(s, p) == IF p <= Len(s) /\ IsLetter(s[p]) THEN 1 + LetterRunLen(s, p + 1) ELSE 0

WordAt(s, p, w) == p + Len(w) - 1 <= Len(s) /\ lower(SubSeq(s, p, p + Len(w) - 1)) = w

\* two digits with a value in lo..hi, then one digit with a value in lo1..9
NumAlternatives(s, p, lo, hi, lo1) ==
    (IF HasDigits(s, p, 2) /\ NumAt(s, p, 2) \in lo..hi
        THEN <<[len |-> 2, val |-> NumAt(s, p, 2)]>> ELSE <<>>)
    \o
    (IF HasDigits(s, p, 1) /\ NumAt(s, p, 1) \in lo1..9
        THEN <<[len |-> 1, val |-> NumAt(s, p, 1)]>> ELSE <<>>)

NameAlternatives(s, p, names) ==
    LET hit(i) == IF WordAt(s, p, names[i])
                     THEN <<[len |-> Len(names[i]), val |-> i]>> ELSE <<>>
    IN  hit(1) \o hit(2) \o hit(3) \o hit(4) \o hit(5) \o hit(6) \o
        hit(7) \o hit(8) \o hit(9) \o hit(10) \o hit(11) \o hit(12)

\* The ways item f can match s at position p, in the order the regular
\* expression tries them.
\*   %d  3[0-1]|[1-2]\d|0[1-9]|[1-9]| [1-9]     %m  1[0-2]|0[1-9]|[1-9]
\*   %Y  \d\d\d\d                               %H  2[0-3]|[0-1]\d|\d
\*   %M  [0-5]\d|\d                             %S  6[0-1]|[0-5]\d|\d
Alternatives(f, s, p) ==
    CASE f = "%d" ->
           NumAlternatives(s, p, 1, 31, 1) \o
           (IF p + 1 <= Len(s) /\ s[p] = " " /\ HasDigits(s, p + 1, 1)
                /\ NumAt(s, p + 1, 1) \in 1..9
               THEN <<[len |-> 2, val |-> NumAt(s, p + 1, 1)]>> ELSE <<>>)
      [] f = "%m" -> NumAlternatives(s, p, 1, 12, 1)
      [] f = "%Y" -> IF HasDigits(s, p, 4)
                        THEN <<[len |-> 4, val |-> NumAt(s, p, 4)]>> ELSE <<>>
      [] f = "%H" -> NumAlternatives(s, p, 0, 23, 0)
      [] f = "%M" -> NumAlternatives(s, p, 0, 59, 0)
      [] f = "%S" -> NumAlternatives(s, p, 0, 61, 0)
      [] f = "%B" -> NameAlternatives(s, p, MonthNames)
      [] f = "%b" -> NameAlternatives(s, p, MonthAbbrs)
      [] f = " "  -> LET n == SpaceRunLen(s, p)
                     IN  [i \in 1..n |-> [len |-> n - i + 1, val |-> 0]]
      [] OTHER    -> IF p <= Len(s) /\ LowerChar(s[p]) = LowerChar(f)
                        THEN <<[len |-> 1, val |-> 0]>> ELSE <<>>

Bind(acc, f, val) ==
    CASE f = "%Y" -> [acc EXCEPT !.y = val]
      [] f \in {"%m", "%B", "%b"} -> [acc EXCEPT !.m = val]
      [] f = "%d" -> [acc EXCEPT !.d = val]
      [] f = "%S" -> [acc EXCEPT !.sec = val]
      [] OTHER -> acc

NoMatch == [ok |-> FALSE, end |-> 0, y |-> 0, m |-> 0, d |-> 0, sec |-> 0]

RECURSIVE MatchFrom(_, _, _, _), TryAlternatives(_, _, _, _, _, _)
MatchFrom(fmt, s, p, acc) ==
    IF fmt = <<>>
        THEN [acc EXCEPT !.ok = TRUE, !.end = p]
        ELSE TryAlternatives(Alternatives(Head(fmt), s, p), Head(fmt), Tail(fmt), s, p, acc)

TryAlternatives(alts, f, rest, s, p, acc) ==
    IF alts = <<>>
        THEN NoMatch
        ELSE LET a == Head(alts)
                 r == MatchFrom(rest, s, p + a.len, Bind(acc, f, a.val))
             IN  IF r.ok THEN r ELSE TryAlternatives(Tail(alts), f, rest, s, p, acc)

\* datetime.strptime(s, fmt): ok = FALSE stands for the ValueError.  The
\* regular expression lets the leap seconds 60 and 61 through, the datetime
\* constructor then refuses them.
strptime(s, fmt) ==
    LET r == MatchFrom(fmt, s, 1,
                       [ok |-> FALSE, end |-> 0, y |-> 1900, m |-> 1, d |-> 1, sec |-> 0])
    IN  IF r.ok /\ r.end = Len(s) + 1 /\ ValidDate(r.y, r.m, r.d) /\ r.sec <= 59
           THEN r ELSE NoMatch

\* ------------------------------------------------------------------------
\* Date normalizer of the primary pass
\* ------------------------------------------------------------------------
FmtDateTime == <<"%Y","-","%m","-","%d"," ","%H",":","%M",":","%S">>
FmtIso      == <<"%Y","-","%m","-","%d">>
FmtDayMonthName == <<"%d"," ","%B"," ","%Y">>
FmtDayMonthAbbr == <<"%d"," ","%b"," ","%Y">>
FmtSlash    == <<"%d","/","%m","/","%Y">>
FmtDash     == <<"%d","-","%m","-","%Y">>

date_formats ==
    <<FmtDateTime, FmtIso, FmtDayMonthName, FmtDayMonthAbbr, FmtSlash, FmtDash,
      FmtDayMonthName, FmtDayMonthAbbr>>

\* the first format of fmts that parses s
RECURSIVE TryFormats(_, _)
TryFormats(s, fmts) ==
    IF fmts = <<>>
        THEN NoMatch
        ELSE LET r == strptime(s, Head(fmts))
             IN  IF r.ok THEN r ELSE TryFormats(s, Tail(fmts))

\* re.search(r'(\d{1,2})\s+([a-zA-Z]+)\s+(\d{4})', s) tried at position p.
\* \d{1,2} takes two digits before it takes one; each \s+ and the letter
\* run can only succeed with their longest match, since a shorter one is
\* followed by a character of the same class.
MatchDayMonthYearAt(s, p, dl) ==
    LET q   == p + dl
        ws1 == SpaceRunLen(s, q)
        r   == q + ws1
        ln  == LetterRunLen(s, r)
        t   == r + ln
        ws2 == SpaceRunLen(s, t)
        u   == t + ws2
    IN  IF HasDigits(s, p, dl) /\ ws1 >= 1 /\ ln >= 1 /\ ws2 >= 1 /\ HasDigits(s, u, 4)
           THEN [ok |-> TRUE, day |-> SubSeq(s, p, q - 1),
                 month_str |-> SubSeq(s, r, t - 1), year |-> SubSeq(s, u, u + 3)]
           ELSE [ok |-> FALSE, day |-> <<>>, month_str |-> <<>>, year |-> <<>>]

RECURSIVE SearchFrom(_, _)
SearchFrom(s, p) ==
    IF p > Len(s)
        THEN [ok |-> FALSE, day |-> <<>>, month_str |-> <<>>, year |-> <<>>]
        ELSE IF MatchDayMonthYearAt(s, p, 2).ok THEN MatchDayMonthYearAt(s, p, 2)
        ELSE IF MatchDayMonthYearAt(s, p, 1).ok THEN MatchDayMonthYearAt(s, p, 1)
        ELSE SearchFrom(s, p + 1)

date_match(s) == SearchFrom(s, 1)

month_map ==
    << [key |-> <<"j","a","n">>, val |-> 1],  [key |-> <<"f","e","b">>, val |-> 2],
       [key |-> <<"m","a","r">>, val |-> 3],  [key |-> <<"a","p","r">>, val |-> 4],
       [key |-> <<"m","a","y">>, val |-> 5],  [key |-> <<"j","u","n">>, val |-> 6],
       [key |-> <<"j","u","l">>, val |-> 7],  [key |-> <<"a","u","g">>, val |-> 8],
       [key |-> <<"s","e","p">>, val |-> 9],  [key |-> <<"o","c","t">>, val |-> 10],
       [key |-> <<"n","o","v">>, val |-> 11], [key |-> <<"d","e","c">>, val |-> 12],
       [key |-> <<"j","a","n","u","a","r","i">>, val |-> 1],
       [key |-> <<"f","e","b","r","u","a","r","i">>, val |-> 2],
       [key |-> <<"m","a","r","e","t">>, val |-> 3],
       [key |-> <<"a","p","r","i","l">>, val |-> 4],
       [key |-> <<"m","e","i">>, val |-> 5],
       [key |-> <<"j","u","n","i">>, val |-> 6],
       [key |-> <<"j","u","l","i">>, val |-> 7],
       [key |-> <<"a","g","u","s","t","u","s">>, val |-> 8],
       [key |-> <<"s","e","p","t","e","m","b","e","r">>, val |-> 9],
       [key |-> <<"o","k","t","o","b","e","r">>, val |-> 10],
       [key |-> <<"n","o","v","e","m","b","e","r">>, val |-> 11],
       [key |-> <<"d","e","s","e","m","b","e","r">>, val |-> 12] >>

\* month_map.get(k, None); 0 stands for None
month_map_get(k) ==
    IF \E i \in 1..Len(month_map) : month_map[i].key = k
        THEN month_map[CHOOSE i \in 1..Len(month_map) : month_map[i].key = k].val
        ELSE 0

\* the regex fallback: the date string it yields, or raw when it yields none
MonthWordFallback(raw) ==
    LET g     == date_match(raw)
        month == month_map_get(prefix(lower(g.month_str), 3))
    IN  IF g.ok /\ month # 0 /\ ValidDate(int(g.year), month, int(g.day))
           THEN strftime(int(g.year), month, int(g.day))
           ELSE raw

\* talis_date_str of the primary pass for a cell that passed the row filter
NormalizePrimary(cell) ==
    IF cell.k = "ts"
        THEN strftime(cell.y, cell.m, cell.d)
        ELSE LET raw == strip(str(cell))
                 r   == TryFormats(raw, date_formats)
             IN  IF r.ok THEN strftime(r.y, r.m, r.d) ELSE MonthWordFallback(raw)

\* ------------------------------------------------------------------------
\* Date normalizer of the secondary pass
\* ------------------------------------------------------------------------
secondary_formats ==
    <<FmtDateTime, FmtIso, FmtDayMonthName, FmtDayMonthAbbr, FmtSlash, FmtDash>>

NormalizeSecondary(cell) ==
    IF cell.k = "ts"
        THEN strftime(cell.y, cell.m, cell.d)
        ELSE LET raw == strip(str(cell))
                 r   == TryFormats(raw, secondary_formats)
             IN  IF r.ok THEN strftime(r.y, r.m, r.d) ELSE raw

\* ------------------------------------------------------------------------
\* Sheets and column resolution
\* ------------------------------------------------------------------------
\* A sheet is [present, cols, rows]: whether pd.read_excel can open it, its
\* column labels as read at the sheet's header offset, and its rows, each a
\* sequence of cells aligned with cols.
SheetNames == {"SLA", "Talis Full", "Talis Mix"}

OtherSheets == <<"Talis Full", "Talis Mix">>

\* None for a column label
NoCol == <<>>

HasColumn(sheet, col) == \E i \in 1..Len(sheet.cols) : sheet.cols[i] = col

\* row[col] for a column the sheet has
RowCell(sheet, row, col) == row[CHOOSE i \in 1..Len(sheet.cols) : sheet.cols[i] = col]

\* str(col).lower().replace('\n', ' ').replace('\r', ' ')
col_str(col) == replace(replace(lower(col), "\n", " "), "\r", " ")

IsTalisHeader(col) ==
    /\ contains(col_str(col), <<"d","o","n","e"," ","i","n","s","t","a","l">>)
    /\ contains(col_str(col), <<"t","a","l","i","s">>)

IsSiteNameHeader(col) ==
    \/ contains(col_str(col), <<"n","a","m","a"," ","s","i","t","e">>)
    \/ /\ contains(col_str(col), <<"s","i","t","e">>)
       /\ contains(col_str(col), <<"n","a","m","e">>)

\* the `for col in df.columns` loop: a later matching label replaces an
\* earlier one, a role no label matches keeps the value it had
RECURSIVE ScanColumns(_, _)
ScanColumns(cols, acc) ==
    IF cols = <<>>
        THEN acc
        ELSE ScanColumns(Tail(cols),
                 [talis_col |-> IF IsTalisHeader(Head(cols)) THEN Head(cols) ELSE acc.talis_col,
                  site_name_col |-> IF IsSiteNameHeader(Head(cols)) THEN Head(cols)
                                    ELSE acc.site_name_col])

\* the `for sheet_name in ['Talis Full', 'Talis Mix']` loop of the column
\* search; acc is [talis_col, site_name_col, df]
RECURSIVE TryOtherSheets(_, _, _)
TryOtherSheets(names, wb, acc) ==
    IF names = <<>>
        THEN acc
        ELSE IF ~wb[Head(names)].present
        THEN TryOtherSheets(Tail(names), wb, acc)
        ELSE LET r == ScanColumns(wb[Head(names)].cols,
                          [talis_col |-> acc.talis_col, site_name_col |-> acc.site_name_col])
             IN  IF r.talis_col # NoCol /\ r.site_name_col # NoCol
                    THEN [talis_col |-> r.talis_col, site_name_col |-> r.site_name_col,
                          df |-> Head(names)]
                    ELSE TryOtherSheets(Tail(names), wb,
                             [talis_col |-> r.talis_col, site_name_col |-> r.site_name_col,
                              df |-> acc.df])

\* ------------------------------------------------------------------------
\* The site -> date map: a dict, kept as its items in insertion order
\* ------------------------------------------------------------------------
HasKey(map, key) == \E i \in 1..Len(map) : map[i].key = key

Lookup(map, key) == map[CHOOSE i \in 1..Len(map) : map[i].key = key].val

\* map[key] = val
SetItem(map, key, val) ==
    IF HasKey(map, key)
        THEN [i \in 1..Len(map) |-> IF map[i].key = key THEN [key |-> key, val |-> val]
                                    ELSE map[i]]
        ELSE Append(map, [key |-> key, val |-> val])

RejectedStrings == { <<"n","a","n">>, <<"n","o","n","e">>, <<>> }

\* site_name of a row: the stripped text of the cell, <<>> for None or ''
RowSiteName(cell) == IF notna(cell) THEN strip(str(cell)) ELSE <<>>

\* the row filter of both passes
RowAccepted(site_cell, date_cell) ==
    /\ RowSiteName(site_cell) # <<>>
    /\ notna(date_cell)
    /\ lower(strip(str(date_cell))) \notin RejectedStrings

\* site_name.lower().strip()
site_name_normalized(site_cell) == strip(lower(RowSiteName(site_cell)))

\* the insert of the primary pass
PrimaryInsertKeepFirst(map, key, val) ==
    IF val # <<>> /\ ~HasKey(map, key) THEN SetItem(map, key, val) ELSE map

PrimaryInsert(map, key, val) ==
    IF val # <<>> THEN SetItem(map, key, val) ELSE map

\* the body of the primary pass for one row
PrimaryRow(map, site_cell, date_cell) ==
    IF RowAccepted(site_cell, date_cell)
        THEN PrimaryInsert(map, site_name_normalized(site_cell), NormalizePrimary(date_cell))
        ELSE map

RECURSIVE PrimaryRows(_, _, _, _, _)
PrimaryRows(sheet, rows, scol, tcol, map) ==
    IF rows = <<>>
        THEN map
        ELSE PrimaryRows(sheet, Tail(rows), scol, tcol,
                 PrimaryRow(map, RowCell(sheet, Head(rows), scol),
                                 RowCell(sheet, Head(rows), tcol)))

\* the guarded insert of the secondary pass: only a key the map lacks gets
\* the converted date
SecondaryInsertOverwrite(map, key, date_cell) ==
    IF NormalizeSecondary(date_cell) \notin RejectedStrings
        THEN SetItem(map, key, NormalizeSecondary(date_cell))
        ELSE map

SecondaryInsert(map, key, date_cell) ==
    IF ~HasKey(map, key) /\ NormalizeSecondary(date_cell) \notin RejectedStrings
        THEN SetItem(map, key, NormalizeSecondary(date_cell))
        ELSE map

\* the body of the secondary pass for one row
SecondaryRow(map, site_cell, date_cell) ==
    IF RowAccepted(site_cell, date_cell)
        THEN SecondaryInsert(map, site_name_normalized(site_cell), date_cell)
        ELSE map

RECURSIVE SecondaryRows(_, _, _, _, _)
SecondaryRows(sheet, rows, scol, tcol, map) ==
    IF rows = <<>>
        THEN map
        ELSE SecondaryRows(sheet, Tail(rows), scol, tcol,
                 SecondaryRow(map, RowCell(sheet, Head(rows), scol),
                                   RowCell(sheet, Head(rows), tcol)))

\* row[site_name_col] or row[talis_col] raises KeyError on the first row
RaisesKeyError(sheet, scol, tcol) ==
    sheet.rows # <<>> /\ (~HasColumn(sheet, scol) \/ ~HasColumn(sheet, tcol))

\* one iteration of the secondary sheet loop; any exception is swallowed
SecondarySheet(sheet, scol, tcol, map) ==
    IF ~sheet.present \/ RaisesKeyError(sheet, scol, tcol)
        THEN map
        ELSE SecondaryRows(sheet, sheet.rows, scol, tcol, map)

\* ------------------------------------------------------------------------
\* JSON records and the merge
\* ------------------------------------------------------------------------
\* A field of a record is absent, null or a string.
Absent == [k |-> "absent", s |-> <<>>]

Null == [k |-> "null", s |-> <<>>]

Str(s) == [k |-> "str", s |-> s]

\* item.get('site_name', '')
GetSiteName(item) == IF item.site_name.k = "absent" THEN Str(<<>>) ELSE item.site_name

\* .strip() on a value that is not a string raises AttributeError
RaisesAttributeError(item) == GetSiteName(item).k # "str"

\* s.replace('_', '-').replace(' ', '-')
NormalizedUnderscoresOnly(s) == replace(s, "_", "-")

Normalized(s) == replace(replace(s, "_", "-"), " ", "-")

\* index of the first key, in the map's order, that equals site_name after
\* both are normalized; 0 when there is none
FirstFuzzyKey(map, site_name) ==
    IF \E i \in 1..Len(map) : Normalized(map[i].key) = Normalized(site_name)
        THEN CHOOSE i \in 1..Len(map) :
                 /\ Normalized(map[i].key) = Normalized(site_name)
                 /\ \A j \in 1..(i - 1) : Normalized(map[j].key) # Normalized(site_name)
        ELSE 0

\* the body of the merge loop for one record: the record afterwards and
\* whether it was updated
MergeItemClearsOnMiss(item, map) ==
    LET site_name == lower(strip(GetSiteName(item).s))
        i == FirstFuzzyKey(map, site_name)
    IN  IF HasKey(map, site_name)
           THEN [item |-> [item EXCEPT !.talis_installed = Str(Lookup(map, site_name))],
                 found |-> TRUE, site_name |-> site_name]
           ELSE IF i # 0
           THEN [item |-> [item EXCEPT !.talis_installed = Str(map[i].val)],
                 found |-> TRUE, site_name |-> site_name]
           ELSE [item |-> [item EXCEPT !.talis_installed = Null],
                 found |-> FALSE, site_name |-> site_name]

MergeItemRenames(item, map) ==
    LET site_name == lower(strip(GetSiteName(item).s))
        i == FirstFuzzyKey(map, site_name)
    IN  IF HasKey(map, site_name)
           THEN [item |-> [item EXCEPT !.talis_installed = Str(Lookup(map, site_name))],
                 found |-> TRUE, site_name |-> site_name]
           ELSE IF i # 0
           THEN [item |-> [item EXCEPT !.talis_installed = Str(map[i].val),
                                       !.site_name = Str(Normalized(site_name))],
                 found |-> TRUE, site_name |-> site_name]
           ELSE [item |-> item, found |-> FALSE, site_name |-> site_name]

MergeItem(item, map) ==
    LET site_name == lower(strip(GetSiteName(item).s))
        i == FirstFuzzyKey(map, site_name)
    IN  IF HasKey(map, site_name)
           THEN [item |-> [item EXCEPT !.talis_installed = Str(Lookup(map, site_name))],
                 found |-> TRUE, site_name |-> site_name]
           ELSE IF i # 0
           THEN [item |-> [item EXCEPT !.talis_installed = Str(map[i].val)],
                 found |-> TRUE, site_name |-> site_name]
           ELSE [item |-> item, found |-> FALSE, site_name |-> site_name]

\* the merge loop over the records; acc is [data, updated_count, not_found]
RECURSIVE MergeLoop(_, _, _)
MergeLoop(items, map, acc) ==
    IF items = <<>>
        THEN acc
        ELSE LET r == MergeItem(Head(items), map)
             IN  MergeLoop(Tail(items), map,
                     [data |-> Append(acc.data, r.item),
                      updated_count |-> acc.updated_count + (IF r.found THEN 1 ELSE 0),
                      not_found |-> IF r.found THEN acc.not_found
                                    ELSE Append(acc.not_found, r.site_name)])

\* ------------------------------------------------------------------------
\* State of a run
\* ------------------------------------------------------------------------
VARIABLES
    workbook,       \* the Excel file: sheet name -> sheet
    json_file,      \* content of newDatas.json: [ok, data]; ok = FALSE when
                    \* json.load cannot read it
    prev_file,      \* content of newDatas.json when the current run started
    run,            \* number of the current run of the script
    pc,             \* position of the run in the script
    df,             \* name of the sheet held by df
    talis_col,
    site_name_col,
    talis_map,
    sheet_no,       \* index in OtherSheets of the next secondary sheet
    data,
    updated_count,
    not_found,
    writes          \* number of times the run has written newDatas.json

vars == <<workbook, json_file, prev_file, run, pc, df, talis_col, site_name_col,
          talis_map, sheet_no, data, updated_count, not_found, writes>>

\* ------------------------------------------------------------------------
\* Inputs: workbooks and JSON files the script is run on
\* ------------------------------------------------------------------------
LabelNo == <<"N","o">>
LabelNamaSite == <<"N","a","m","a"," ","S","i","t","e">>
LabelSiteName == <<"S","I","T","E"," ","N","A","M","E">>
LabelTalis == <<"D","o","n","e"," ","I","n","s","t","a","l","\n","T","a","l","i","s">>
LabelTalisAlt == <<"T","a","l","i","s"," ","D","o","n","e"," ","I","n","s","t","a","l">>

HeaderBoth == <<LabelNamaSite, LabelTalis>>
HeaderBothAlt == <<LabelSiteName, LabelTalisAlt>>
HeaderDateOnly == <<LabelNo, LabelTalis>>
HeaderSiteOnly == <<LabelSiteName, LabelNo>>
HeaderNeither == <<LabelNo>>
HeaderTwoSiteNames == <<LabelNamaSite, LabelSiteName, LabelTalis>>

Headers == {HeaderBoth, HeaderBothAlt, HeaderDateOnly, HeaderSiteOnly, HeaderNeither,
            HeaderTwoSiteNames}

NameSiteA == <<"S","i","t","e"," ","A">>
NameSiteAPadded == <<" ","S","I","T","E"," ","A"," ">>
NameSiteB == <<"S","i","t","e"," ","B">>
NameBlank == <<" ">>
NameAlphaSpace == <<"S","i","t","e"," ","A","l","p","h","a","-","1">>
NameAlphaHyphen == <<"s","i","t","e","-","a","l","p","h","a","-","1">>
NameAlphaUnderscore == <<"S","i","t","e","_","A","l","p","h","a","-","1">>
NameAlphaPadded == <<" ","S","i","t","e"," ","A","l","p","h","a","-","1"," ">>
NameBeta == <<"S","i","t","e"," ","B","e","t","a">>

TextSlash == <<"0","7","/","1","0","/","2","0","2","5">>
TextSept == <<"6"," ","s","e","p","t"," ","2","0","2","5">>
TextTBD == <<"T","B","D">>
TextNone == <<"N","o","n","e">>
TextOldDate == <<"2","0","2","0","-","0","1","-","0","1">>

AbsentSheet == [present |-> FALSE, cols |-> <<>>, rows |-> <<>>]

Sheet(cols, rows) == [present |-> TRUE, cols |-> cols, rows |-> rows]

Workbook(sla, full, mix) ==
    [n \in SheetNames |-> CASE n = "SLA" -> sla [] n = "Talis Full" -> full [] OTHER -> mix]

JsonFile(records) == [ok |-> TRUE, data |-> records]

UnreadableJson == [ok |-> FALSE, data |-> <<>>]

Record(site_name, talis_installed) ==
    [site_name |-> site_name, talis_installed |-> talis_installed]

DefaultJson == JsonFile(<<Record(Str(NameSiteA), Absent), Record(Str(NameBeta), Str(TextOldDate))>>)

\* all sequences over S of length at most n
SeqsUpTo(S, n) == UNION {[1..k -> S] : k \in 0..n}

\* (1) column resolution: every sheet may be missing, carries one of the
\* headers, and has no row or one row with a site name and a date of its own
LocateRow(cols, date) ==
    [i \in 1..Len(cols) |->
        IF IsSiteNameHeader(cols[i]) THEN Text(NameSiteA)
        ELSE IF IsTalisHeader(cols[i]) THEN date ELSE NaN]

LocateSheets(date) ==
    {AbsentSheet} \cup
    {Sheet(h, r) : h \in Headers, r \in {<<>>} } \cup
    {Sheet(h, <<LocateRow(h, date)>>) : h \in Headers}

LocateInputs ==
    {[workbook |-> Workbook(a, b, c), json_file |-> DefaultJson] :
        a \in LocateSheets(Timestamp(2025, 10, 6)),
        b \in LocateSheets(Timestamp(2025, 11, 1)),
        c \in LocateSheets(Timestamp(2025, 12, 1))}

\* (2) the primary pass: up to MaxRows rows in the SLA sheet
PrimaryRowSet ==
    {<<n, c>> : n \in {Text(NameSiteA), Text(NameSiteAPadded)},
                c \in {Timestamp(2025, 10, 6), Text(TextSlash), Text(TextTBD)}}
    \cup { <<Text(NameBlank), Timestamp(2025, 10, 6)>>, <<NaN, Timestamp(2025, 10, 6)>>,
           <<Text(NameSiteA), NaN>>, <<Text(NameSiteA), Text(TextNone)>> }

PrimaryInputs ==
    {[workbook |-> Workbook(Sheet(HeaderBoth, rows),
                            Sheet(HeaderBoth, <<<<Text(NameSiteA), Timestamp(2025, 11, 1)>>>>),
                            Sheet(HeaderBoth, <<<<Text(NameSiteB), Timestamp(2025, 12, 1)>>>>)),
      json_file |-> DefaultJson] : rows \in SeqsUpTo(PrimaryRowSet, MaxRows)}

\* (3) the secondary pass: up to MaxSecRows rows in each secondary sheet
SecondaryRowSet(date) ==
    { <<Text(NameSiteAPadded), date>>, <<Text(NameSiteB), date>>,
      <<Text(NameSiteB), Text(TextSept)>> }

PrecedenceInputs ==
    {[workbook |-> Workbook(Sheet(HeaderBoth, sla), Sheet(HeaderBoth, full),
                            Sheet(HeaderBoth, mix)),
      json_file |-> DefaultJson] :
        sla \in {<<>>, <<<<Text(NameSiteA), Timestamp(2025, 10, 6)>>>>},
        full \in SeqsUpTo(SecondaryRowSet(Timestamp(2025, 11, 1)), MaxSecRows),
        mix \in SeqsUpTo(SecondaryRowSet(Timestamp(2025, 12, 1)), MaxSecRows)}

\* (4) the merge: up to MaxRecords records, or a file json.load rejects
MergeWorkbooks ==
    {Workbook(Sheet(HeaderBoth, <<<<Text(NameAlphaHyphen), Timestamp(2025, 10, 6)>>>>),
              Sheet(HeaderBoth, <<>>), AbsentSheet),
     Workbook(Sheet(HeaderBoth, <<<<Text(NameAlphaSpace), Timestamp(2025, 10, 6)>>,
                                  <<Text(NameAlphaHyphen), Timestamp(2025, 10, 7)>>>>),
              Sheet(HeaderBoth, <<>>), AbsentSheet),
     Workbook(Sheet(HeaderBoth, <<<<Text(NameAlphaSpace), Text(TextSlash)>>>>),
              Sheet(HeaderBoth, <<>>), AbsentSheet)}

RecordSet ==
    {Record(n, d) : n \in {Str(NameAlphaUnderscore), Str(NameAlphaPadded), Str(NameBeta)},
                    d \in {Absent, Str(TextOldDate)}}
    \cup {Record(Absent, Absent), Record(Null, Str(TextOldDate))}

MergeInputs ==
    {[workbook |-> w, json_file |-> j] :
        w \in MergeWorkbooks,
        j \in {UnreadableJson} \cup {JsonFile(r) : r \in SeqsUpTo(RecordSet, MaxRecords)}}

\* (5) the date normalizers: one calendar date, written in one style, as the
\* date cell of a row of the SLA sheet and of a row of the Talis Full sheet
Dates ==
    {dt \in [y : {2024, 2025}, m : 1..12, d : {6, 29}] : ValidDate(dt.y, dt.m, dt.d)}

IndonesianMonths ==
    << <<"j","a","n","u","a","r","i">>,
       <<"f","e","b","r","u","a","r","i">>,
       <<"m","a","r","e","t">>,
       <<"a","p","r","i","l">>,
       <<"m","e","i">>,
       <<"j","u","n","i">>,
       <<"j","u","l","i">>,
       <<"a","g","u","s","t","u","s">>,
       <<"s","e","p","t","e","m","b","e","r">>,
       <<"o","k","t","o","b","e","r">>,
       <<"n","o","v","e","m","b","e","r">>,
       <<"d","e","s","e","m","b","e","r">> >>

DayMonthYear(dt, word) == decimal(dt.d) \o <<" ">> \o word \o <<" ">> \o pad(dt.y, 4)

SupportedStyles ==
    {"native", "datetime", "iso", "slash", "dash", "month name", "month abbr", "month word"}

IndonesianStyles == {"indonesian name", "indonesian abbr"}

\* the cell that holds date dt in the given style
Render(dt, style) ==
    CASE style = "native" -> Timestamp(dt.y, dt.m, dt.d)
      [] style = "datetime" ->
           Text(strftime(dt.y, dt.m, dt.d) \o <<" ","0","0",":","0","0",":","0","0">>)
      [] style = "iso" -> Text(strftime(dt.y, dt.m, dt.d))
      [] style = "slash" -> Text(pad(dt.d, 2) \o <<"/">> \o pad(dt.m, 2) \o <<"/">> \o pad(dt.y, 4))
      [] style = "dash" -> Text(pad(dt.d, 2) \o <<"-">> \o pad(dt.m, 2) \o <<"-">> \o pad(dt.y, 4))
      [] style = "month name" -> Text(DayMonthYear(dt, MonthNames[dt.m]))
      [] style = "month abbr" -> Text(DayMonthYear(dt, MonthAbbrs[dt.m]))
      [] style = "month word" -> Text(DayMonthYear(dt, prefix(MonthNames[dt.m], 4)))
      [] style = "indonesian name" -> Text(DayMonthYear(dt, IndonesianMonths[dt.m]))
      [] OTHER -> Text(DayMonthYear(dt, prefix(IndonesianMonths[dt.m], 3)))

NormalizerInputs ==
    {[workbook |-> Workbook(Sheet(HeaderBoth, <<<<Text(NameSiteA), Render(dt, st)>>>>),
                            Sheet(HeaderBoth, <<<<Text(NameSiteB), Render(dt, st)>>>>),
                            AbsentSheet),
      json_file |-> DefaultJson] : dt \in Dates, st \in SupportedStyles \cup IndonesianStyles}

Inputs == LocateInputs \cup PrimaryInputs \cup PrecedenceInputs \cup MergeInputs
              \cup NormalizerInputs

\* ------------------------------------------------------------------------
\* The script
\* ------------------------------------------------------------------------
Init ==
    /\ \E i \in Inputs : workbook = i.workbook /\ json_file = i.json_file
    /\ prev_file = json_file
    /\ run = 1
    /\ pc = "start"
    /\ df = "SLA"
    /\ talis_col = NoCol
    /\ site_name_col = NoCol
    /\ talis_map = <<>>
    /\ sheet_no = 1
    /\ data = <<>>
    /\ updated_count = 0
    /\ not_found = <<>>
    /\ writes = 0

\* pd.read_excel of the SLA sheet and the first column search; a workbook
\* without the SLA sheet stops the script with an uncaught exception
ResolvePrimary ==
    /\ pc = "start"
    /\ IF workbook["SLA"].present
          THEN LET r == ScanColumns(workbook["SLA"].cols,
                            [talis_col |-> NoCol, site_name_col |-> NoCol])
               IN  /\ talis_col' = r.talis_col
                   /\ site_name_col' = r.site_name_col
                   /\ pc' = "resolved"
          ELSE /\ pc' = "crashed"
               /\ UNCHANGED <<talis_col, site_name_col>>
    /\ UNCHANGED <<workbook, json_file, prev_file, run, df, talis_map, sheet_no, data,
                   updated_count, not_found, writes>>

\* `if not talis_col or not site_name_col`: the search in the other sheets
TryOtherSheetsStep ==
    /\ pc = "resolved"
    /\ talis_col = NoCol \/ site_name_col = NoCol
    /\ LET r == TryOtherSheets(OtherSheets, workbook,
                    [talis_col |-> talis_col, site_name_col |-> site_name_col, df |-> df])
       IN  /\ talis_col' = r.talis_col
           /\ site_name_col' = r.site_name_col
           /\ df' = r.df
    /\ pc' = "searched"
    /\ UNCHANGED <<workbook, json_file, prev_file, run, talis_map, sheet_no, data,
                   updated_count, not_found, writes>>

ColumnsResolved == talis_col # NoCol /\ site_name_col # NoCol

\* `if talis_col and site_name_col`: the loop over the rows of df; a column
\* df lacks raises KeyError on the first row, which nothing catches
PrimaryPass ==
    /\ pc \in {"resolved", "searched"}
    /\ ColumnsResolved
    /\ IF RaisesKeyError(workbook[df], site_name_col, talis_col)
          THEN /\ pc' = "crashed"
               /\ UNCHANGED talis_map
          ELSE /\ talis_map' = PrimaryRows(workbook[df], workbook[df].rows,
                                           site_name_col, talis_col, <<>>)
               /\ pc' = "secondary"
    /\ sheet_no' = 1
    /\ UNCHANGED <<workbook, json_file, prev_file, run, df, talis_col, site_name_col,
                   data, updated_count, not_found, writes>>

\* the else branch: the error message, nothing else
ColumnErrorWrites ==
    /\ pc = "searched"
    /\ ~ColumnsResolved
    /\ json_file' = [ok |-> TRUE, data |-> data]
    /\ writes' = writes + 1
    /\ pc' = "aborted"
    /\ UNCHANGED <<workbook, prev_file, run, df, talis_col, site_name_col,
                   talis_map, sheet_no, data, updated_count, not_found>>

ColumnError ==
    /\ pc = "searched"
    /\ ~ColumnsResolved
    /\ pc' = "aborted"
    /\ UNCHANGED <<workbook, json_file, prev_file, run, df, talis_col, site_name_col,
                   talis_map, sheet_no, data, updated_count, not_found, writes>>

\* one iteration of `for sheet_name in ['Talis Full', 'Talis Mix']` of the
\* lookup builder
SecondaryPass ==
    /\ pc = "secondary"
    /\ talis_map' = SecondarySheet(workbook[OtherSheets[sheet_no]], site_name_col,
                                   talis_col, talis_map)
    /\ IF sheet_no = Len(OtherSheets)
          THEN pc' = "read_json" /\ UNCHANGED sheet_no
          ELSE sheet_no' = sheet_no + 1 /\ UNCHANGED pc
    /\ UNCHANGED <<workbook, json_file, prev_file, run, df, talis_col, site_name_col,
                   data, updated_count, not_found, writes>>

\* json.load; a file it cannot read stops the script
ReadJson ==
    /\ pc = "read_json"
    /\ IF json_file.ok
          THEN data' = json_file.data /\ pc' = "merge"
          ELSE pc' = "crashed" /\ UNCHANGED data
    /\ UNCHANGED <<workbook, json_file, prev_file, run, df, talis_col, site_name_col,
                   talis_map, sheet_no, updated_count, not_found, writes>>

\* the merge loop; a record whose site_name is not a string stops the script
MergeRecords ==
    /\ pc = "merge"
    /\ IF \E i \in 1..Len(data) : RaisesAttributeError(data[i])
          THEN /\ pc' = "crashed"
               /\ UNCHANGED <<data, updated_count, not_found>>
          ELSE LET r == MergeLoop(data, talis_map,
                            [data |-> <<>>, updated_count |-> 0, not_found |-> <<>>])
               IN  /\ data' = r.data
                   /\ updated_count' = r.updated_count
                   /\ not_found' = r.not_found
                   /\ pc' = "write"
    /\ UNCHANGED <<workbook, json_file, prev_file, run, df, talis_col, site_name_col,
                   talis_map, sheet_no, writes>>

\* json.dump of the merged records over the file
WriteJson ==
    /\ pc = "write"
    /\ json_file' = [ok |-> TRUE, data |-> data]
    /\ writes' = writes + 1
    /\ pc' = "done"
    /\ UNCHANGED <<workbook, prev_file, run, df, talis_col, site_name_col, talis_map,
                   sheet_no, data, updated_count, not_found>>

\* the script is run again on the same workbook and on the JSON file as the
\* previous run left it
RunAgain ==
    /\ pc \in {"done", "aborted", "crashed"}
    /\ run < MaxRuns
    /\ run' = run + 1
    /\ prev_file' = json_file
    /\ pc' = "start"
    /\ df' = "SLA"
    /\ talis_col' = NoCol
    /\ site_name_col' = NoCol
    /\ talis_map' = <<>>
    /\ sheet_no' = 1
    /\ data' = <<>>
    /\ updated_count' = 0
    /\ not_found' = <<>>
    /\ writes' = 0
    /\ UNCHANGED <<workbook, json_file>>

Next ==
    \/ ResolvePrimary
    \/ TryOtherSheetsStep
    \/ PrimaryPass
    \/ ColumnError
    \/ SecondaryPass
    \/ ReadJson
    \/ MergeRecords
    \/ WriteJson
    \/ RunAgain

Spec == Init /\ [][Next]_vars

\* ------------------------------------------------------------------------
\* Vocabulary of the properties
\* ------------------------------------------------------------------------
AfterLookup == pc \in {"read_json", "merge", "write", "done"}

AfterMerge == pc \in {"write", "done"}

\* the rows sheet n hands to a pass that reads it with the resolved columns
ReadableRows(n) ==
    IF workbook[n].present /\ HasColumn(workbook[n], site_name_col)
            /\ HasColumn(workbook[n], talis_col)
        THEN 1..Len(workbook[n].rows) ELSE {}

SiteCellAt(n, i) == RowCell(workbook[n], workbook[n].rows[i], site_name_col)

DateCellAt(n, i) == RowCell(workbook[n], workbook[n].rows[i], talis_col)

\* the rows of sheet n that pass the row filter, and their keys
AcceptedRows(n) == {i \in ReadableRows(n) : RowAccepted(SiteCellAt(n, i), DateCellAt(n, i))}

KeyAt(n, i) == strip(lower(strip(str(SiteCellAt(n, i)))))

LastOfKey(n, i) == \A j \in AcceptedRows(n) : j > i => KeyAt(n, j) # KeyAt(n, i)

FirstOfKey(n, i) == \A j \in AcceptedRows(n) : j < i => KeyAt(n, j) # KeyAt(n, i)

PrimaryKeys == {KeyAt(df, i) : i \in AcceptedRows(df)}

\* YYYY-MM-DD
IsIsoDate(s) ==
    /\ Len(s) = 10
    /\ \A i \in {1, 2, 3, 4, 6, 7, 9, 10} : IsDigit(s[i])
    /\ s[5] = "-" /\ s[8] = "-"

\* a record's site name, lowercased and trimmed
RecordName(item) == strip(lower(IF item.site_name.k = "str" THEN item.site_name.s ELSE <<>>))

\* every underscore and space replaced by a hyphen
Hyphenated(s) == [i \in 1..Len(s) |-> IF s[i] \in {"_", " "} THEN "-" ELSE s[i]]

FuzzyKeys(item) ==
    {j \in 1..Len(talis_map) : Hyphenated(talis_map[j].key) = Hyphenated(RecordName(item))}

Matches(item) == HasKey(talis_map, RecordName(item)) \/ FuzzyKeys(item) # {}

InNotFound(name) == \E j \in 1..Len(not_found) : not_found[j] = name

\* ------------------------------------------------------------------------
\* C1.  After the lookup builder has processed the three sheets, every
\* value of the site -> date map is a string of the form YYYY-MM-DD (a date
\* cell no attempt can parse adds no entry).
\* ------------------------------------------------------------------------
C1_MapValuesAreIsoDates ==
    AfterLookup => \A i \in 1..Len(talis_map) : IsIsoDate(talis_map[i].val)

\* ------------------------------------------------------------------------
\* C2.  The JSON file is written at most once per run, as the last step,
\* after the columns were resolved and the records merged; in a run that
\* ends earlier the file's content is what it was before the run.
\* ------------------------------------------------------------------------
C2_WrittenOnceAtTheEnd ==
    /\ writes <= 1
    /\ pc # "done" => writes = 0 /\ json_file = prev_file
    /\ pc = "done" => /\ writes = 1
                      /\ ColumnsResolved
                      /\ prev_file.ok
                      /\ json_file = [ok |-> TRUE, data |-> data]
                      /\ Len(data) = Len(prev_file.data)

C2_Witness == pc = "aborted" /\ json_file.ok /\ json_file.data # <<>>

\* ------------------------------------------------------------------------
\* C3.  Sheet precedence: a name the primary sheet yields keeps the primary
\* sheet's date in the final map; a name the primary sheet does not yield
\* gets the date of Talis Full rather than that of Talis Mix; processing a
\* secondary sheet never changes the value of a key already in the map.
\* ------------------------------------------------------------------------
C3_FinalMapPrecedence ==
    AfterLookup =>
        /\ \A i \in AcceptedRows(df) :
               LastOfKey(df, i) =>
                   /\ HasKey(talis_map, KeyAt(df, i))
                   /\ Lookup(talis_map, KeyAt(df, i)) = NormalizePrimary(DateCellAt(df, i))
        /\ \A i \in AcceptedRows("Talis Full") :
               (KeyAt("Talis Full", i) \notin PrimaryKeys /\ FirstOfKey("Talis Full", i)) =>
                   /\ HasKey(talis_map, KeyAt("Talis Full", i))
                   /\ Lookup(talis_map, KeyAt("Talis Full", i))
                          = NormalizeSecondary(DateCellAt("Talis Full", i))

C3_SecondaryKeepsEntries ==
    pc = "secondary" =>
        \A i \in 1..Len(talis_map) :
            /\ HasKey(talis_map', talis_map[i].key)
            /\ Lookup(talis_map', talis_map[i].key) = talis_map[i].val

\* C3: the final map respects the precedence of the sheets in every state,
\* and every step of the secondary pass keeps the entries the map has.
C3_SheetPrecedence == [](C3_FinalMapPrecedence) /\ [][C3_SecondaryKeepsEntries]_vars

C3_Witness ==
    /\ pc = "read_json"
    /\ df = "SLA"
    /\ \E i \in AcceptedRows("SLA"), j \in AcceptedRows("Talis Full") :
           /\ KeyAt("SLA", i) = KeyAt("Talis Full", j)
           /\ NormalizePrimary(DateCellAt("SLA", i))
                  # NormalizeSecondary(DateCellAt("Talis Full", j))
           /\ Lookup(talis_map, KeyAt("SLA", i)) = NormalizePrimary(DateCellAt("SLA", i))
    /\ \E i \in AcceptedRows("Talis Full"), j \in AcceptedRows("Talis Mix") :
           /\ KeyAt("Talis Full", i) = KeyAt("Talis Mix", j)
           /\ KeyAt("Talis Full", i) \notin PrimaryKeys
           /\ NormalizeSecondary(DateCellAt("Talis Full", i))
                  # NormalizeSecondary(DateCellAt("Talis Mix", j))
           /\ Lookup(talis_map, KeyAt("Talis Full", i))
                  = NormalizeSecondary(DateCellAt("Talis Full", i))

LookupSheets == {df, "Talis Full", "Talis Mix"}

OnlyRowOfKey(n, i) ==
    \A o \in LookupSheets : \A j \in AcceptedRows(o) :
        KeyAt(o, j) = KeyAt(n, i) => (o = n /\ j = i)

\* ------------------------------------------------------------------------
\* C4.  Date normalization is format-independent: a date cell holding the
\* calendar date dt, natively or as text in any supported style, is
\* normalized to the YYYY-MM-DD rendering of dt by the primary pass and by
\* the secondary pass alike.
\* ------------------------------------------------------------------------
C4_FormatIndependent ==
    AfterLookup =>
        \A n \in LookupSheets : \A i \in AcceptedRows(n) :
            \A dt \in Dates, st \in SupportedStyles :
                (DateCellAt(n, i) = Render(dt, st) /\ OnlyRowOfKey(n, i)) =>
                    /\ HasKey(talis_map, KeyAt(n, i))
                    /\ Lookup(talis_map, KeyAt(n, i)) = strftime(dt.y, dt.m, dt.d)

\* ------------------------------------------------------------------------
\* C5.  Record matching rule: a record gets talis_installed set exactly
\* when its lowercased, trimmed site name equals a map key (then that key's
\* date is written) or, failing that, equals some map key once underscores
\* and spaces are hyphens in both (then the date of such a key is written).
\* ------------------------------------------------------------------------
C5_MatchingRule ==
    AfterMerge =>
        /\ updated_count = Cardinality({i \in 1..Len(data) : Matches(prev_file.data[i])})
        /\ updated_count + Len(not_found) = Len(data)
        /\ \A i \in 1..Len(data) :
               LET item == prev_file.data[i] IN
               /\ HasKey(talis_map, RecordName(item)) =>
                      data[i].talis_installed = Str(Lookup(talis_map, RecordName(item)))
               /\ (~HasKey(talis_map, RecordName(item)) /\ FuzzyKeys(item) # {}) =>
                      \E j \in FuzzyKeys(item) :
                          data[i].talis_installed = Str(talis_map[j].val)

C5_Witness ==
    /\ pc = "done"
    /\ HasKey(talis_map, NameAlphaHyphen)
    /\ \E i \in 1..Len(data) :
           /\ prev_file.data[i].site_name = Str(NameAlphaUnderscore)
           /\ ~HasKey(talis_map, RecordName(prev_file.data[i]))
           /\ prev_file.data[i].talis_installed # Str(Lookup(talis_map, NameAlphaHyphen))
           /\ json_file.data[i].talis_installed = Str(Lookup(talis_map, NameAlphaHyphen))

\* ------------------------------------------------------------------------
\* C6.  A record whose site name matches no map key keeps the
\* talis_installed it had before the run (same value, or still absent) and
\* its lowercased site name is in the unmatched list; no matched record's
\* name is in the unmatched list.
\* ------------------------------------------------------------------------
C6_UnmatchedUntouched ==
    AfterMerge =>
        \A i \in 1..Len(data) :
            LET item == prev_file.data[i] IN
            /\ ~Matches(item) =>
                   /\ data[i].talis_installed = item.talis_installed
                   /\ InNotFound(RecordName(item))
                   /\ pc = "done" => json_file.data[i].talis_installed = item.talis_installed
            /\ Matches(item) => ~InNotFound(RecordName(item))

C6_Witness ==
    /\ pc = "done"
    /\ talis_map # <<>>
    /\ \E i \in 1..Len(data) :
           /\ ~Matches(prev_file.data[i])
           /\ prev_file.data[i].talis_installed = Str(TextOldDate)
           /\ json_file.data[i].talis_installed = Str(TextOldDate)
           /\ InNotFound(RecordName(prev_file.data[i]))
    /\ \E i \in 1..Len(data) : Matches(prev_file.data[i])

\* ------------------------------------------------------------------------
\* C7.  Idempotence: run again on the unchanged workbook and on the JSON
\* file the previous run wrote, the script writes an identical file.
\* ------------------------------------------------------------------------
C7_SecondRunWritesTheSameFile ==
    (run > 1 /\ pc = "done") => json_file = prev_file

C7_Witness ==
    /\ run = 2
    /\ pc = "done"
    /\ updated_count > 0
    /\ not_found # <<>>
    /\ \E i, j \in 1..Len(talis_map) :
           /\ i # j
           /\ Hyphenated(talis_map[i].key) = Hyphenated(talis_map[j].key)
           /\ talis_map[i].val # talis_map[j].val

SheetOrder == <<"SLA", "Talis Full", "Talis Mix">>

ResolvesBoth(n) ==
    /\ workbook[n].present
    /\ LET r == ScanColumns(workbook[n].cols, [talis_col |-> NoCol, site_name_col |-> NoCol])
       IN  r.talis_col # NoCol /\ r.site_name_col # NoCol

IsFirstResolving(k) == ResolvesBoth(SheetOrder[k]) /\ \A j \in 1..(k - 1) : ~ResolvesBoth(SheetOrder[j])

\* ------------------------------------------------------------------------
\* C8.  Sheet locator: the sheets are scanned in the order SLA, Talis Full,
\* Talis Mix and the first sheet whose own headers resolve both roles is
\* the one whose rows the primary pass reads, with both resolved columns
\* being columns of it; when no sheet resolves both roles by itself the
\* merge phase is aborted with the column error and nothing is merged.
\* ------------------------------------------------------------------------
C8_FirstSelfResolvingSheet ==
    /\ (pc \in {"secondary", "read_json", "merge", "write", "done"}) =>
           \E k \in 1..3 :
               /\ IsFirstResolving(k)
               /\ df = SheetOrder[k]
               /\ HasColumn(workbook[df], talis_col)
               /\ HasColumn(workbook[df], site_name_col)
    /\ (workbook["SLA"].present /\ pc \notin {"start", "resolved", "searched"}
            /\ \A k \in 1..3 : ~ResolvesBoth(SheetOrder[k])) =>
           pc = "aborted"

MonthWordStyles == {"month word", "indonesian name", "indonesian abbr"}

\* ------------------------------------------------------------------------
\* C9.  Month-word fallback: a primary-sheet date cell "<day> <month-word>
\* <year>" that no explicit format parses, whose month word is a month name
\* in English or Indonesian or an abbreviation of one, is normalized to the
\* YYYY-MM-DD date of that day, month and year.
\* ------------------------------------------------------------------------
C9_MonthWordsResolved ==
    AfterLookup =>
        \A i \in AcceptedRows(df) :
            \A dt \in Dates, st \in MonthWordStyles :
                (/\ DateCellAt(df, i) = Render(dt, st)
                 /\ ~TryFormats(strip(str(DateCellAt(df, i))), date_formats).ok
                 /\ LastOfKey(df, i)) =>
                    /\ HasKey(talis_map, KeyAt(df, i))
                    /\ Lookup(talis_map, KeyAt(df, i)) = strftime(dt.y, dt.m, dt.d)

AfterPrimaryPass == pc = "secondary" /\ sheet_no = 1

\* ------------------------------------------------------------------------
\* C10.  Duplicate rows of the primary sheet: after the primary pass the
\* map holds, for every normalized site name, the date of the last accepted
\* row with that name, and has one entry per distinct name among the
\* accepted rows.
\* ------------------------------------------------------------------------
C10_LastPrimaryRowWins ==
    AfterPrimaryPass =>
        /\ Len(talis_map) = Cardinality(PrimaryKeys)
        /\ \A i \in AcceptedRows(df) :
               LastOfKey(df, i) =>
                   /\ HasKey(talis_map, KeyAt(df, i))
                   /\ Lookup(talis_map, KeyAt(df, i)) = NormalizePrimary(DateCellAt(df, i))

C10_Witness ==
    /\ AfterPrimaryPass
    /\ Len(talis_map) = 1
    /\ \E i, j \in AcceptedRows(df) :
           /\ i < j
           /\ SiteCellAt(df, i) # SiteCellAt(df, j)
           /\ KeyAt(df, i) = KeyAt(df, j)
           /\ NormalizePrimary(DateCellAt(df, i)) # NormalizePrimary(DateCellAt(df, j))
           /\ LastOfKey(df, j)
           /\ Lookup(talis_map, KeyAt(df, j)) = NormalizePrimary(DateCellAt(df, j))

====
